---- MODULE Spec2Model ----
(***************************************************************************)
(* CMIP6py: reconciliation of raw ESGF search records into CMIP6File and   *)
(* CMIP6Dataset objects (cmip6py/data/file.py, cmip6py/data/dataset.py)    *)
(* and the per-dataset download with failover over the common entry keys.  *)
(*                                                                         *)
(* Three specifications share the variables:                               *)
(*   SpecFile    CMIP6File.__init__ on one group of raw records;           *)
(*   Spec        CMIP6Dataset.from_results followed by download calls,     *)
(*               each replica download running step by step in a worker   *)
(*               pool;                                                     *)
(*   SpecSearch  the function search() of search/cmip6_search.py, step by  *)
(*               step: argument checks, search, filters, balancing, save.  *)
(***************************************************************************)
EXTENDS Integers, Sequences, FiniteSets, TLC

VARIABLES
    results,         \* the raw records handed to the constructors
    files,           \* CMIP6Dataset.files: the CMIP6File objects built
    entry_keys_set,  \* CMIP6Dataset.entry_keys_set
    pc,              \* position of the main thread
    calls,           \* number of download calls made so far
    max_workers,     \* argument of the current download call
    keyIdx,          \* position of download's loop in entry_keys_set (1-based)
    workers,         \* the futures of the current batch, one per file
    errors,          \* download's local defaultdict, in insertion order
    local_files,     \* download's local list of the current key
    outcome,         \* what the last finished call returned or raised
    disk,            \* the destination tree: state of every final path
    net,             \* number of GET requests issued per final path
    started,         \* replica downloads begun in the current call
    finished,        \* replica downloads ended in the current call
    args,            \* the arguments of search() and what its surroundings answer
    heap,            \* the CMIP6File objects, by reference (position)
    cmip6_search,    \* the CMIP6Search object the variable of search() holds
    filter_input,    \* self.datasets of the last dataset filter loop
    filter_results,  \* the new_dataset of each turn of that loop
    spc,             \* position of search()
    raised,          \* the exception search() raised, and where
    saved,           \* what is stored at save_path
    derived,         \* the last method called on the object, on what, and its result
    ops,             \* number of methods called so far
    comprehension    \* CMIP6Search.download: progress of the dict comprehension

\* the variables of the function search()
svars == <<args, heap, cmip6_search, filter_input, filter_results, spc, raised, saved>>

\* the variables of the constructors and of CMIP6Dataset.download
dvars == <<files, entry_keys_set, pc, calls, max_workers, keyIdx,
           workers, errors, local_files, outcome, disk, net, started, finished>>

\* the variables of the methods of a CMIP6Search object
ovars == <<derived, ops, comprehension>>

vars == <<results, dvars, svars, ovars>>

(***************************************************************************)
(* Bounds of the model.                                                    *)
(***************************************************************************)
MaxResults == 2
MaxWorkers == 2
MaxCalls == 2
MaxOps == 3

(***************************************************************************)
(* Vocabulary.                                                             *)
(***************************************************************************)
\* commons/constants.py: RESULTS_FACETS_ORDERING
TableIdOrdering == <<"Eday", "day", "Oday">>
GridLabelOrdering == <<"gn", "gr", "gr1", "gr2", "gr3", "gr4", "gr5", "gr6",
                       "gr7", "gr8", "gr9">>
\* a path made of six facet directories only
RELATIVE_PATH_FACETS_Six == <<"source_id", "experiment_id", "member_id",
                              "table_id", "variable", "version">>

\* commons/constants.py: RELATIVE_PATH_FACETS
RELATIVE_PATH_FACETS == <<"project", "activity_id", "source_id", "experiment_id",
                          "member_id", "table_id", "variable", "version">>

\* Version stamps: the ones datetime.strptime(v, "v%Y%m%d") accepts, with
\* the date they denote, and one it rejects.
VersionDate == [v \in {"v20190101", "v20200101"} |->
                  IF v = "v20190101" THEN 20190101 ELSE 20200101]
BadVersion == "latest"

\* Python compares str by code point: "Eday" < "Oday" < "day" (upper case
\* first), and inside a file name the grid label is followed by "_", so
\* "gn_" < "gr1_" < ... < "gr9_" < "gr_" ("1" < "_").
TableIdStrOrder == <<"Amon", "Eday", "Oday", "day">>
GridLabelStrOrder == <<"gn", "gr1", "gr2", "gr3", "gr4", "gr5", "gr6", "gr7",
                       "gr8", "gr9", "gr">>
DataNodeStrOrder == <<"esgf.ceda.ac.uk", "esgf.nci.org.au">>
DatesStrOrder == <<"18500101-18991231", "19000101-19491231", "19500101-20141231">>
MemberStrOrder == <<"r1i1p1f1", "r2i1p1f1">>

\* a grid_label and a table_id that RESULTS_FACETS_ORDERING does not list
UnlistedGrid == "gm"
UnlistedTable == "Amon"

\* identity facets shared by every record of the model
Project == "CMIP6"
ActivityId == "CMIP"
SourceId == "EC-Earth3"
ExperimentId == "historical"
MemberId == "r1i1p1f1"
Variable == "ua"
DestFolder == "dest"

(***************************************************************************)
(* Python helpers.                                                         *)
(***************************************************************************)
\* list.index(x), 0-based; -1 stands for the ValueError of a missing x
RECURSIVE IndexFrom(_, _, _)
IndexFrom(seq, x, i) ==
    IF i > Len(seq) THEN -1
    ELSE IF seq[i] = x THEN i - 1
    ELSE IndexFrom(seq, x, i + 1)

Index(seq, x) == IndexFrom(seq, x, 1)

\* comparison of tuples of integers, as Python compares sort keys
RECURSIVE TupleLessFrom(_, _, _)
TupleLessFrom(a, b, i) ==
    IF i > Len(a) \/ i > Len(b) THEN Len(a) < Len(b)
    ELSE IF a[i] < b[i] THEN TRUE
    ELSE IF a[i] > b[i] THEN FALSE
    ELSE TupleLessFrom(a, b, i + 1)

TupleLess(a, b) == TupleLessFrom(a, b, 1)

\* insertion of a <<key, element>> pair after the pairs whose key is not
\* greater: one step of a stable sort
RECURSIVE InsertByKey(_, _)
InsertByKey(sorted, p) ==
    IF sorted = <<>> THEN <<p>>
    ELSE IF TupleLess(p[1], Head(sorted)[1])
         THEN <<p>> \o sorted
         ELSE <<Head(sorted)>> \o InsertByKey(Tail(sorted), p)

RECURSIVE SortPairsFrom(_, _, _)
SortPairsFrom(pairs, i, acc) ==
    IF i > Len(pairs) THEN acc
    ELSE SortPairsFrom(pairs, i + 1, InsertByKey(acc, pairs[i]))

\* sorted(seq, key=...): a stable sort; keys[i] is the key of seq[i]
Sorted(seq, keys) ==
    LET pairs == [i \in 1..Len(seq) |-> <<keys[i], seq[i]>>]
        out == SortPairsFrom(pairs, 1, <<>>)
    IN [i \in 1..Len(out) |-> out[i][2]]

\* the positions of a sequence whose key differs from the key before them
RunStarts(keys) == {i \in 1..Len(keys) : i = 1 \/ keys[i] # keys[i - 1]}

\* the subsequence of seq at the positions of the set P, in order
RECURSIVE SelectAt(_, _, _)
SelectAt(seq, P, i) ==
    IF i > Len(seq) THEN <<>>
    ELSE IF i \in P THEN <<seq[i]>> \o SelectAt(seq, P, i + 1)
    ELSE SelectAt(seq, P, i + 1)

\* [list(run)[0] for _, run in itertools.groupby(seq, key=...)]; keys[i] is
\* the key of seq[i]
FirstOfRuns(seq, keys) == SelectAt(seq, RunStarts(keys), 1)

\* the elements of a sequence as a set
Range(seq) == {seq[i] : i \in 1..Len(seq)}

(***************************************************************************)
(* Raw records (pyesgf FileResult) and CMIP6Entry.                         *)
(***************************************************************************)
\* A raw record: its json facets, the dataset_id "<a.b...version>|<node>"
\* as the pair of its dot-separated parts and its node, and the file name
\* <variable>_<table>_<source>_<experiment>_<member>_<grid>_<dates>.nc.
RawRecord(table, version, grid, node, dates, checksum_type) ==
    [table_id |-> table, grid_label |-> grid, data_node |-> node,
     member_id |-> MemberId,
     dataset_id |-> <<<<Project, ActivityId, SourceId, ExperimentId, MemberId,
                        table, Variable, grid, version>>, node>>,
     filename |-> <<Variable, table, SourceId, ExperimentId, MemberId, grid,
                    dates, "nc">>,
     checksum_type |-> checksum_type]

\* the same record published for the ensemble member m
WithMember(r, m) ==
    [r EXCEPT !.member_id = m,
              !.dataset_id = <<[r.dataset_id[1] EXCEPT ![5] = m], r.dataset_id[2]>>,
              !.filename = [r.filename EXCEPT ![5] = m]]

\* get_version: result.json["dataset_id"].split("|")[0].rsplit(".")[-1]
get_version(result) ==
    LET parts == result.dataset_id[1] IN parts[Len(parts)]

\* Path(result.filename).stem: the file name without its last suffix
Stem(filename) == SubSeq(filename, 1, Len(filename) - 1)

\* extract_esgf_file_datetimes: the last "_" part of the name, extensions removed
extract_esgf_file_datetimes(filename) == Stem(filename)[Len(Stem(filename))]

\* datetime.strptime(version, "v%Y%m%d") succeeds
VersionParses(version) == version \in DOMAIN VersionDate

\* convert_version_to_datetime
convert_version_to_datetime(version) == VersionDate[version]

\* CMIP6Entry.__init__ (the class of file.py, the one CMIP6File uses)
CMIP6Entry(result) ==
    [name |-> Stem(result.filename),
     data_node |-> result.data_node,
     checksum_type |-> result.checksum_type,
     entry_key |-> <<result.table_id, get_version(result), result.grid_label>>,
     facets |-> [project |-> Project, activity_id |-> ActivityId,
                 source_id |-> SourceId, experiment_id |-> ExperimentId,
                 member_id |-> result.member_id, table_id |-> result.table_id,
                 variable |-> Variable, version |-> get_version(result)]]

\* a path that ends at the facet directories, without the file name
LocalFileDirectoryOnly(entry, dest_folder) ==
    <<dest_folder>> \o
    [i \in 1..Len(RELATIVE_PATH_FACETS) |-> entry.facets[RELATIVE_PATH_FACETS[i]]]

\* CMIP6Entry._get_relative_path and _local_file: dest_folder, the facets
\* of RELATIVE_PATH_FACETS in order, then the file name with suffix .nc
LocalFile(entry, dest_folder) ==
    <<dest_folder>> \o
    [i \in 1..Len(RELATIVE_PATH_FACETS) |-> entry.facets[RELATIVE_PATH_FACETS[i]]] \o
    <<entry.name \o <<"nc">>>>

(***************************************************************************)
(* CMIP6File (data/file.py).                                               *)
(***************************************************************************)
\* the key of Python's str order on the names of the model: the parts that
\* vary are the table, the member, the grid label and the dates
NameStrKey(name) ==
    <<Index(TableIdStrOrder, name[2]), Index(MemberStrOrder, name[5]),
      Index(GridLabelStrOrder, name[6]), Index(DatesStrOrder, name[7])>>

\* CMIP6File._make_name: source_experiment_member_variable_start-end
MakeName(result) ==
    <<SourceId, ExperimentId, result.member_id, Variable,
      extract_esgf_file_datetimes(result.filename)>>

\* a first loop that stops at the first version that does not parse
ValidResultsUntilInvalid(rs) ==
    LET bad == {i \in 1..Len(rs) : ~VersionParses(get_version(rs[i]))}
    IN IF bad = {} THEN rs
       ELSE SubSeq(rs, 1, (CHOOSE i \in bad : \A j \in bad : i <= j) - 1)

\* first loop of _convert_to_sorted_entries: the results whose version parses
ValidResults(rs) == SelectSeq(rs, LAMBDA r : VersionParses(get_version(r)))

\* versions = list(sorted(versions, reverse=True)): latest first
SortedVersions(rs) ==
    LET versions == [i \in 1..Len(ValidResults(rs)) |-> get_version(ValidResults(rs)[i])]
    IN Sorted(versions, [i \in 1..Len(versions) |->
                            <<0 - convert_version_to_datetime(versions[i])>>])

\* a sort key that leaves the version out
FileSortKeyNoVersion(result, versions) ==
    <<Index(TableIdOrdering, result.table_id),
      0,
      Index(GridLabelOrdering, result.grid_label)>>

\* get_sort_key of _convert_to_sorted_entries
FileSortKey(result, versions) ==
    <<Index(TableIdOrdering, result.table_id),
      Index(versions, get_version(result)),
      Index(GridLabelOrdering, result.grid_label)>>

\* a get_sort_key whose grid_label lookup never raises
FileSortRaisesTableOnly(rs) ==
    \E i \in 1..Len(ValidResults(rs)) :
        Index(TableIdOrdering, ValidResults(rs)[i].table_id) = -1

\* list.index raises ValueError in get_sort_key for some valid result
FileSortRaises(rs) ==
    \E i \in 1..Len(ValidResults(rs)) :
        \/ Index(TableIdOrdering, ValidResults(rs)[i].table_id) = -1
        \/ Index(GridLabelOrdering, ValidResults(rs)[i].grid_label) = -1

\* same_entry of _convert_to_sorted_entries: (entry.name, entry.data_node)
same_entry(entry) ==
    NameStrKey(entry.name) \o <<Index(DataNodeStrOrder, entry.data_node)>>

\* a construction that skips the composite sort before removing duplicates
ConvertToSortedEntriesInputOrder(rs) ==
    LET valid == ValidResults(rs)
        entries == [i \in 1..Len(valid) |-> CMIP6Entry(valid[i])]
        regrouped == Sorted(entries, [i \in 1..Len(entries) |-> same_entry(entries[i])])
    IN FirstOfRuns(regrouped, [i \in 1..Len(regrouped) |-> same_entry(regrouped[i])])

\* CMIP6File._convert_to_sorted_entries
ConvertToSortedEntries(rs) ==
    LET versions == SortedVersions(rs)
        valid == ValidResults(rs)
        sorted_results == Sorted(valid, [i \in 1..Len(valid) |->
                                            FileSortKey(valid[i], versions)])
        entries == [i \in 1..Len(sorted_results) |-> CMIP6Entry(sorted_results[i])]
        regrouped == Sorted(entries, [i \in 1..Len(entries) |-> same_entry(entries[i])])
    IN FirstOfRuns(regrouped, [i \in 1..Len(regrouped) |-> same_entry(regrouped[i])])

\* CMIP6File.__init__
CMIP6File(rs) ==
    LET entries == ConvertToSortedEntries(rs)
    IN [name |-> MakeName(rs[1]),
        dates |-> extract_esgf_file_datetimes(rs[1].filename),
        entries |-> entries,
        entry_keys |-> [i \in 1..Len(entries) |-> entries[i].entry_key]]

\* CMIP6File.sample_entry_key: entries[entry_keys.index(entry_key)]
FileSampleEntryKey(file, entry_key) ==
    file.entries[Index(file.entry_keys, entry_key) + 1]

\* entry_keys.index(entry_key) raises ValueError
FileSampleRaises(file, entry_key) == Index(file.entry_keys, entry_key) = -1

\* CMIP6File.from_results: sort by name, one CMIP6File per run of equal names
FilesFromResults(rs) ==
    LET NameKey(r) == <<Index(MemberStrOrder, r.member_id),
                        Index(DatesStrOrder, extract_esgf_file_datetimes(r.filename))>>
        sorted_results == Sorted(rs, [i \in 1..Len(rs) |-> NameKey(rs[i])])
        starts == RunStarts([i \in 1..Len(sorted_results) |-> NameKey(sorted_results[i])])
        Group(i) == SelectSeq(sorted_results, LAMBDA r : NameKey(r) = NameKey(sorted_results[i]))
    IN [j \in 1..Cardinality(starts) |->
          CMIP6File(Group(CHOOSE i \in starts : Cardinality({k \in starts : k < i}) = j - 1))]

(***************************************************************************)
(* CMIP6Dataset construction (data/dataset.py).                            *)
(***************************************************************************)
\* the loop of _intersect_entry_keys over files[i..]
RECURSIVE IntersectFrom(_, _, _)
IntersectFrom(fs, i, acc) ==
    IF i > Len(fs) THEN acc
    ELSE IntersectFrom(fs, i + 1,
            IF Cardinality(acc) = 0 THEN Range(fs[i].entry_keys)
            ELSE acc \cap Range(fs[i].entry_keys))

\* some enumeration of a set (the order Python iterates a set in)
RECURSIVE SeqOfSet(_)
SeqOfSet(S) ==
    IF S = {} THEN <<>>
    ELSE LET x == CHOOSE y \in S : TRUE IN <<x>> \o SeqOfSet(S \ {x})

\* get_sort_key of _intersect_entry_keys; versions is sorted ascending
DatasetSortKey(entry_key, versions) ==
    <<Index(TableIdOrdering, entry_key[1]),
      Index(versions, convert_version_to_datetime(entry_key[2])),
      Index(GridLabelOrdering, entry_key[3])>>

\* CMIP6Dataset._intersect_entry_keys
IntersectEntryKeys(fs) ==
    LET keys == SeqOfSet(IntersectFrom(fs, 1, Range(fs[1].entry_keys)))
        dates == [i \in 1..Len(keys) |-> convert_version_to_datetime(keys[i][2])]
        versions == Sorted(dates, [i \in 1..Len(dates) |-> <<dates[i]>>])
    IN Sorted(keys, [i \in 1..Len(keys) |-> DatasetSortKey(keys[i], versions)])

\* CMIP6Dataset.sample_entry_key: one entry per file
SampleEntryKey(fs, entry_key) ==
    [i \in 1..Len(fs) |-> FileSampleEntryKey(fs[i], entry_key)]

\* sample_entry_key raises the ValueError of some file's index()
SampleRaises(fs, entry_key) ==
    \E i \in 1..Len(fs) : FileSampleRaises(fs[i], entry_key)

(***************************************************************************)
(* The inputs of the two specifications.                                   *)
(***************************************************************************)
\* one group of records of the same file, for CMIP6File.__init__: "Amon"
\* is a table the priority list lacks
FileUniverse ==
    {RawRecord(t, v, g, n, DatesStrOrder[1], "SHA256") :
        t \in {"day", "Oday", UnlistedTable}, v \in {"v20190101", "v20200101", BadVersion},
        g \in {"gn", "gr", UnlistedGrid}, n \in Range(DataNodeStrOrder)}

\* the sequences of length 1..n over the set S
SeqsUpTo(S, n) == UNION {[1..k -> S] : k \in 1..n}

\* search results of one dataset: two files, each in an older version
\* on one mirror that carries no checksum, in a newer version on another
\* mirror that does, and in an unparseable version; and a third file
\* published in the newer version only. (Two versions of a file on the
\* same mirror have the same name and collapse to one entry.)
DatasetRecord(v, d) ==
    RawRecord("day", v, "gn",
              IF v = "v20190101" THEN DataNodeStrOrder[2] ELSE DataNodeStrOrder[1],
              d,
              IF v = "v20190101" THEN "None" ELSE "SHA256")

DatasetUniverse ==
    {DatasetRecord(v, d) :
        v \in {"v20190101", "v20200101", BadVersion},
        d \in {DatesStrOrder[1], DatesStrOrder[2]}}
    \cup {DatasetRecord("v20200101", DatesStrOrder[3])}

\* the final paths the records of the dataset can be stored at
AllPaths ==
    {LocalFile(CMIP6Entry(r), DestFolder) :
        r \in {u \in DatasetUniverse : VersionParses(get_version(u))}}

NoOutcome == [kind |-> "none", dataset |-> <<>>, report |-> <<>>, local_files |-> <<>>]

\* no exception
NoException == [kind |-> "None", step |-> "None"]

\* CMIP6Search.__init__: no dataset, no local file, both flags down
NewCMIP6Search ==
    [datasets |-> <<>>, datasets_to_local_files |-> <<>>,
     nodes_are_filtered |-> FALSE, members_are_balanced |-> FALSE]

\* the values of the variables of search() while it is not called
IdleSearch ==
    /\ args = <<>>
    /\ heap = <<>>
    /\ cmip6_search = NewCMIP6Search
    /\ filter_input = <<>>
    /\ filter_results = <<>>
    /\ spc = "idle"
    /\ raised = NoException
    /\ saved = "nothing"

\* no method of a CMIP6Search object has been called
NoMethod == [op |-> "None", self |-> NewCMIP6Search, new |-> NewCMIP6Search]

\* CMIP6Search.download is not running
NoComprehension == [j |-> 0, dict |-> <<>>, attempted |-> <<>>, before |-> <<>>]

\* the values of the variables of the methods while none is called
IdleMethods ==
    /\ derived = NoMethod
    /\ ops = 0
    /\ comprehension = NoComprehension

\* the values of the download variables while no download runs
IdleDownload ==
    /\ calls = 0
    /\ max_workers = 0
    /\ keyIdx = 0
    /\ workers = <<>>
    /\ errors = <<>>
    /\ local_files = <<>>
    /\ outcome = NoOutcome
    /\ disk = [p \in AllPaths |-> "absent"]
    /\ net = [p \in AllPaths |-> 0]
    /\ started = {}
    /\ finished = {}

(***************************************************************************)
(* SpecFile: CMIP6File.__init__ on one group of raw records.               *)
(***************************************************************************)
InitFile ==
    /\ results \in SeqsUpTo(FileUniverse, MaxResults)
    /\ files = <<>>
    /\ entry_keys_set = <<>>
    /\ pc = "file_new"
    /\ IdleDownload
    /\ IdleSearch
    /\ IdleMethods

\* CMIP6File.__init__ returns
CMIP6FileInit ==
    /\ pc = "file_new"
    /\ ~FileSortRaises(results)
    /\ files' = <<CMIP6File(results)>>
    /\ pc' = "file_built"
    /\ UNCHANGED <<ovars, svars, results, entry_keys_set, calls, max_workers, keyIdx, workers,
                   errors, local_files, outcome, disk, net, started, finished>>

\* CMIP6File.__init__ raises the ValueError of get_sort_key
CMIP6FileInitRaises ==
    /\ pc = "file_new"
    /\ FileSortRaises(results)
    /\ pc' = "file_ValueError"
    /\ UNCHANGED <<ovars, svars, results, files, entry_keys_set, calls, max_workers, keyIdx,
                   workers, errors, local_files, outcome, disk, net, started,
                   finished>>

NextFile == CMIP6FileInit \/ CMIP6FileInitRaises

SpecFile == InitFile /\ [][NextFile]_vars

(***************************************************************************)
(* Spec: CMIP6Dataset.from_results, then CMIP6Dataset.download.            *)
(***************************************************************************)
\* CMIP6Dataset._make_name: the identity facets and the span of the files
DatasetName(fs) ==
    <<SourceId, ExperimentId, fs[1].name[3], Variable, fs[1].dates, fs[Len(fs)].dates>>

Init ==
    /\ results \in {SeqOfSet(S) : S \in (SUBSET DatasetUniverse) \ {{}}}
    /\ files = <<>>
    /\ entry_keys_set = <<>>
    /\ pc = "search"
    /\ IdleDownload
    /\ IdleSearch
    /\ IdleMethods

\* CMIP6Dataset.from_results: the files, then the one dataset they form
\* (all records share the identity facets) with its common entry keys
FromResults ==
    /\ pc = "search"
    /\ files' = FilesFromResults(results)
    /\ entry_keys_set' = IntersectEntryKeys(files')
    /\ pc' = "ready"
    /\ UNCHANGED <<ovars, svars, results, calls, max_workers, keyIdx, workers, errors,
                   local_files, outcome, disk, net, started, finished>>

\* CMIP6Dataset.download is called: errors = defaultdict(list)
DownloadCall(mw) ==
    /\ pc \in {"ready", "returned", "raised"}
    /\ calls < MaxCalls
    /\ calls' = calls + 1
    /\ max_workers' = mw
    /\ keyIdx' = 1
    /\ workers' = <<>>
    /\ errors' = <<>>
    /\ local_files' = <<>>
    /\ outcome' = NoOutcome
    /\ started' = {}
    /\ finished' = {}
    /\ pc' = "loop"
    /\ UNCHANGED <<ovars, svars, results, files, entry_keys_set, disk, net>>

\* a future of executor.submit(self._donwload_entry, entry, dest_folder)
NewFuture(entry) ==
    [entry |-> entry, path |-> LocalFile(entry, DestFolder), st |-> "queued",
     found |-> "none", payload |-> "none", tmp |-> "absent", error |-> "None",
     local_file |-> <<>>, requests |-> 0, collected |-> FALSE]

\* the loop takes the next key: sample_entry_key, then one future per entry
SubmitBatch ==
    /\ pc = "loop"
    /\ keyIdx <= Len(entry_keys_set)
    /\ ~SampleRaises(files, entry_keys_set[keyIdx])
    /\ workers' = [i \in 1..Len(files) |->
                     NewFuture(SampleEntryKey(files, entry_keys_set[keyIdx])[i])]
    /\ local_files' = <<>>
    /\ pc' = "batch"
    /\ UNCHANGED <<ovars, svars, results, files, entry_keys_set, calls, max_workers, keyIdx,
                   errors, outcome, disk, net, started, finished>>

\* sample_entry_key raises ValueError out of download
SampleFails ==
    /\ pc = "loop"
    /\ keyIdx <= Len(entry_keys_set)
    /\ SampleRaises(files, entry_keys_set[keyIdx])
    /\ outcome' = [kind |-> "ValueError", dataset |-> DatasetName(files),
                   report |-> <<>>, local_files |-> <<>>]
    /\ pc' = "raised"
    /\ UNCHANGED <<ovars, svars, results, files, entry_keys_set, calls, max_workers, keyIdx,
                   workers, errors, local_files, disk, net, started, finished>>

\* the loop is over: raise DownloadError with every key's error list
Exhausted ==
    /\ pc = "loop"
    /\ keyIdx > Len(entry_keys_set)
    /\ outcome' = [kind |-> "DownloadError", dataset |-> DatasetName(files),
                   report |-> errors, local_files |-> <<>>]
    /\ pc' = "raised"
    /\ UNCHANGED <<ovars, svars, results, files, entry_keys_set, calls, max_workers, keyIdx,
                   workers, errors, local_files, disk, net, started, finished>>

\* a pool thread is free and i is the oldest queued future
MayBegin(i) ==
    /\ pc = "batch"
    /\ workers[i].st = "queued"
    /\ \A j \in 1..(i - 1) : workers[j].st # "queued"
    /\ Cardinality({j \in 1..Len(workers) : workers[j].st \in {"streaming", "written"}})
         < max_workers

\* a download that fetches again over a valid local file
ExistingFileBranchRefetch(state) ==
    IF state = "invalid" THEN "raise" ELSE "download"

\* a download that fetches again over an invalid local file
ExistingFileBranchOverwrite(state) ==
    IF state = "valid" THEN "return" ELSE "download"

\* the branch download takes on the state of local_file: os.path.exists,
\* then xr.open_dataset
ExistingFileBranch(state) ==
    IF state = "absent" THEN "download"
    ELSE IF state = "valid" THEN "return"
    ELSE "raise"

\* _donwload_entry: the future's result is (local_file, None) when
\* download returned and (None, e) when it raised e; None is <<>> or "None"
Returned(w) == [w EXCEPT !.st = "done", !.local_file = w.path]

Raised(w, e) == [w EXCEPT !.st = "done", !.error = e]

\* the record kept of a replica download begun in the current call
Attempt(i) ==
    [k |-> keyIdx, file |-> i, entry_key |-> workers[i].entry.entry_key,
     path |-> workers[i].path]

\* the record kept of a replica download that ended with error e ("None":
\* it returned)
Ended(i, e) ==
    [k |-> keyIdx, file |-> i, entry_key |-> workers[i].entry.entry_key,
     path |-> workers[i].path, error |-> e]

\* download finds a valid local_file and returns it
EntryReturnExisting(i) ==
    /\ MayBegin(i)
    /\ ExistingFileBranch(disk[workers[i].path]) = "return"
    /\ workers' = [workers EXCEPT ![i] =
                     Returned([workers[i] EXCEPT !.found = disk[workers[i].path]])]
    /\ started' = started \cup {Attempt(i)}
    /\ finished' = finished \cup {Ended(i, "None")}
    /\ UNCHANGED <<ovars, svars, results, files, entry_keys_set, pc, calls, max_workers, keyIdx,
                   errors, local_files, outcome, disk, net>>

\* download finds an invalid local_file and raises the OSError
EntryRaiseInvalid(i) ==
    /\ MayBegin(i)
    /\ ExistingFileBranch(disk[workers[i].path]) = "raise"
    /\ workers' = [workers EXCEPT ![i] =
                     Raised([workers[i] EXCEPT !.found = disk[workers[i].path]],
                            "OSError")]
    /\ started' = started \cup {Attempt(i)}
    /\ finished' = finished \cup {Ended(i, "OSError")}
    /\ UNCHANGED <<ovars, svars, results, files, entry_keys_set, pc, calls, max_workers, keyIdx,
                   errors, local_files, outcome, disk, net>>

\* a download that writes the chunks straight to local_file
WriteTargetLocalFile(w) == "local_file"

\* the file the chunks are written to: with tmp_file.open("wb")
WriteTarget(w) == "tmp_file"

\* no local_file: requests.get and raise_for_status; the mirror answers,
\* or the request fails (connection error, timeout, HTTP error)
EntryRequest(i, answered) ==
    /\ MayBegin(i)
    /\ ExistingFileBranch(disk[workers[i].path]) = "download"
    /\ net' = [net EXCEPT ![workers[i].path] = @ + 1]
    /\ workers' = [workers EXCEPT ![i] =
                     IF answered
                     THEN [workers[i] EXCEPT !.found = disk[workers[i].path],
                                             !.requests = @ + 1,
                                             !.st = "streaming", !.tmp = "partial"]
                     ELSE Raised([workers[i] EXCEPT !.found = disk[workers[i].path],
                                                    !.requests = @ + 1],
                                 "RequestException")]
    /\ started' = started \cup {Attempt(i)}
    /\ finished' = IF answered THEN finished
                    ELSE finished \cup {Ended(i, "RequestException")}
    /\ disk' = IF answered /\ WriteTarget(workers[i]) = "local_file"
                THEN [disk EXCEPT ![workers[i].path] = "partial"]
                ELSE disk
    /\ UNCHANGED <<ovars, svars, results, files, entry_keys_set, pc, calls, max_workers, keyIdx,
                   errors, local_files, outcome>>

\* the chunks are written to tmp_file and hashed: the payload arrives
\* intact or corrupt, or the stream breaks
EntryStream(i, how) ==
    /\ pc = "batch"
    /\ workers[i].st = "streaming"
    /\ workers' = [workers EXCEPT ![i] =
                     IF how = "broken" THEN Raised(workers[i], "RequestException")
                     ELSE [workers[i] EXCEPT !.st = "written", !.tmp = "complete",
                                             !.payload = how]]
    /\ finished' = IF how = "broken"
                    THEN finished \cup {Ended(i, "RequestException")}
                    ELSE finished
    /\ UNCHANGED <<ovars, svars, results, files, entry_keys_set, pc, calls, max_workers, keyIdx,
                   errors, local_files, outcome, disk, net, started>>

\* a download that never compares the digests
ChecksumNeverCompared(checksum_type, payload) == FALSE

\* hasher is not None and local_checksum != checksum
ChecksumMismatch(checksum_type, payload) ==
    checksum_type # "None" /\ payload = "corrupt"

\* the digest differs: raise DownloadError, tmp_file stays where it is
EntryChecksumError(i) ==
    /\ pc = "batch"
    /\ workers[i].st = "written"
    /\ ChecksumMismatch(workers[i].entry.checksum_type, workers[i].payload)
    /\ workers' = [workers EXCEPT ![i] = Raised(workers[i], "DownloadError")]
    /\ finished' = finished \cup {Ended(i, "DownloadError")}
    /\ UNCHANGED <<ovars, svars, results, files, entry_keys_set, pc, calls, max_workers, keyIdx,
                   errors, local_files, outcome, disk, net, started>>

\* what xr.open_dataset will say of a stored payload
StoredState(payload) == IF payload = "intact" THEN "valid" ELSE "invalid"

\* shutil.move(tmp_file, local_file) and return local_file
EntryMove(i) ==
    /\ pc = "batch"
    /\ workers[i].st = "written"
    /\ ~ChecksumMismatch(workers[i].entry.checksum_type, workers[i].payload)
    /\ disk' = [disk EXCEPT ![workers[i].path] = StoredState(workers[i].payload)]
    /\ workers' = [workers EXCEPT ![i] = Returned([workers[i] EXCEPT !.tmp = "absent"])]
    /\ finished' = finished \cup {Ended(i, "None")}
    /\ UNCHANGED <<ovars, svars, results, files, entry_keys_set, pc, calls, max_workers, keyIdx,
                   errors, local_files, outcome, net, started>>

\* errors[entry_key] of the defaultdict, without inserting the key
ErrorsOf(errs, entry_key) ==
    IF \E j \in 1..Len(errs) : errs[j].entry_key = entry_key
    THEN errs[CHOOSE j \in 1..Len(errs) : errs[j].entry_key = entry_key].errors
    ELSE <<>>

\* errors[entry_key] = [error]: the errors kept before are lost
AppendErrorOverwrites(errs, entry_key, error) ==
    IF \E j \in 1..Len(errs) : errs[j].entry_key = entry_key
    THEN [j \in 1..Len(errs) |->
            IF errs[j].entry_key = entry_key
            THEN [errs[j] EXCEPT !.errors = <<error>>]
            ELSE errs[j]]
    ELSE Append(errs, [entry_key |-> entry_key, errors |-> <<error>>])

\* errors[entry_key].append(error)
AppendError(errs, entry_key, error) ==
    IF \E j \in 1..Len(errs) : errs[j].entry_key = entry_key
    THEN [j \in 1..Len(errs) |->
            IF errs[j].entry_key = entry_key
            THEN [errs[j] EXCEPT !.errors = Append(@, error)]
            ELSE errs[j]]
    ELSE Append(errs, [entry_key |-> entry_key, errors |-> <<error>>])

\* errors[entry_key] read: the defaultdict inserts a missing key
Touch(errs, entry_key) ==
    IF \E j \in 1..Len(errs) : errs[j].entry_key = entry_key
    THEN errs
    ELSE Append(errs, [entry_key |-> entry_key, errors |-> <<>>])

\* as_completed yields a finished future: its error or its local file is kept
Collect(i) ==
    /\ pc = "batch"
    /\ workers[i].st = "done"
    /\ ~workers[i].collected
    /\ workers' = [workers EXCEPT ![i].collected = TRUE]
    /\ errors' = IF workers[i].error # "None"
                  THEN AppendError(errors, entry_keys_set[keyIdx],
                                   [path |-> workers[i].path,
                                    kind |-> workers[i].error])
                  ELSE errors
    /\ local_files' = IF workers[i].local_file # <<>>
                       THEN Append(local_files, workers[i].local_file)
                       ELSE local_files
    /\ UNCHANGED <<ovars, svars, results, files, entry_keys_set, pc, calls, max_workers, keyIdx,
                   outcome, disk, net, started, finished>>

\* a batch that is given up as soon as one error was collected
BatchOverAtFirstError ==
    /\ pc = "batch"
    /\ \/ \A i \in 1..Len(workers) : workers[i].collected
       \/ \E i \in 1..Len(workers) : workers[i].collected /\ workers[i].error # "None"

\* the with block is left: every future has finished and was yielded
BatchOver ==
    /\ pc = "batch"
    /\ \A i \in 1..Len(workers) : workers[i].collected

\* if errors == {}: an earlier key's errors make every later key fail
BatchCleanNoErrorAtAll(errs, entry_key) ==
    \A j \in 1..Len(errs) : errs[j].errors = <<>>

\* if errors[entry_key] == []
BatchClean(errs, entry_key) == ErrorsOf(errs, entry_key) = <<>>

\* no error for this key: return local_files
BatchSucceeded ==
    /\ BatchOver
    /\ BatchClean(errors, entry_keys_set[keyIdx])
    /\ errors' = Touch(errors, entry_keys_set[keyIdx])
    /\ outcome' = [kind |-> "returned", dataset |-> DatasetName(files),
                   report |-> <<>>, local_files |-> local_files]
    /\ pc' = "returned"
    /\ UNCHANGED <<ovars, svars, results, files, entry_keys_set, calls, max_workers, keyIdx,
                   workers, local_files, disk, net, started, finished>>

\* a loop that tries the failed key again
BatchFailedRetriesKey ==
    /\ BatchOver
    /\ ~BatchClean(errors, entry_keys_set[keyIdx])
    /\ pc' = "loop"
    /\ UNCHANGED <<ovars, svars, results, files, entry_keys_set, calls, max_workers, keyIdx,
                   workers, errors, local_files, outcome, disk, net, started, finished>>

\* a loop that removes the files the failed batch has stored
BatchFailedCleansUp ==
    /\ BatchOver
    /\ ~BatchClean(errors, entry_keys_set[keyIdx])
    /\ keyIdx' = keyIdx + 1
    /\ disk' = [p \in AllPaths |->
                  IF \E i \in 1..Len(workers) : workers[i].path = p /\ workers[i].requests > 0
                  THEN "absent" ELSE disk[p]]
    /\ pc' = "loop"
    /\ UNCHANGED <<ovars, svars, results, files, entry_keys_set, calls, max_workers, workers,
                   errors, local_files, outcome, net, started, finished>>

\* some error for this key: on to the next key
BatchFailed ==
    /\ BatchOver
    /\ ~BatchClean(errors, entry_keys_set[keyIdx])
    /\ keyIdx' = keyIdx + 1
    /\ pc' = "loop"
    /\ UNCHANGED <<ovars, svars, results, files, entry_keys_set, calls, max_workers, workers,
                   errors, local_files, outcome, disk, net, started, finished>>

Next ==
    \/ FromResults
    \/ \E mw \in 1..MaxWorkers : DownloadCall(mw)
    \/ SubmitBatch
    \/ SampleFails
    \/ Exhausted
    \/ \E i \in 1..Len(workers) : EntryReturnExisting(i)
    \/ \E i \in 1..Len(workers) : EntryRaiseInvalid(i)
    \/ \E i \in 1..Len(workers), answered \in BOOLEAN : EntryRequest(i, answered)
    \/ \E i \in 1..Len(workers), how \in {"intact", "corrupt", "broken"} :
         EntryStream(i, how)
    \/ \E i \in 1..Len(workers) : EntryChecksumError(i)
    \/ \E i \in 1..Len(workers) : EntryMove(i)
    \/ \E i \in 1..Len(workers) : Collect(i)
    \/ BatchSucceeded
    \/ BatchFailed

Spec == Init /\ [][Next]_vars

(***************************************************************************)
(* CMIP6Dataset over a heap of CMIP6File objects, and its filters          *)
(* (data/dataset.py, commons/utils.py).                                    *)
(***************************************************************************)
\* file.start_date.year and file.end_date.year
StartYear(dates) ==
    CASE dates = DatesStrOrder[1] -> 1850
      [] dates = DatesStrOrder[2] -> 1900
      [] OTHER -> 1950

EndYear(dates) ==
    CASE dates = DatesStrOrder[1] -> 1899
      [] dates = DatesStrOrder[2] -> 1949
      [] OTHER -> 2014

\* an overlap test that takes the end of the span in
overlapping_spans_closed(file_start_year, file_stop_year, exp_start_year, exp_stop_year) ==
    file_start_year <= exp_stop_year /\ file_stop_year >= exp_start_year

\* commons/utils.py: overlapping_spans
overlapping_spans(file_start_year, file_stop_year, exp_start_year, exp_stop_year) ==
    LET start_condition == file_start_year < exp_stop_year
        end_condition == file_stop_year >= exp_start_year
    IN start_condition /\ end_condition

\* Python's None
None == [is_none |-> TRUE]

\* the CMIP6File objects the references ids point to
Deref(h, ids) == [i \in 1..Len(ids) |-> h[ids[i]]]

\* CMIP6Dataset.__init__ on the file objects ids (files is not empty)
CMIP6Dataset(ids, h) ==
    [source_id |-> h[ids[1]].name[1],
     experiment_id |-> h[ids[1]].name[2],
     member_id |-> h[ids[1]].name[3],
     variable |-> h[ids[1]].name[4],
     name |-> DatasetName(Deref(h, ids)),
     files |-> ids,
     entry_keys_set |-> IntersectEntryKeys(Deref(h, ids))]

\* CMIP6Dataset.from_cmip6_files: sort by the name without the dates, one
\* dataset per run of equal names (the member is the part that varies)
DatasetsFromFiles(h) ==
    LET ids == [i \in 1..Len(h) |-> i]
        sorted == Sorted(ids, [i \in 1..Len(ids) |->
                                 <<Index(MemberStrOrder, h[ids[i]].name[3])>>])
        starts == RunStarts([i \in 1..Len(sorted) |-> h[sorted[i]].name[3]])
        Group(i) == SelectSeq(sorted, LAMBDA x : h[x].name[3] = h[sorted[i]].name[3])
    IN [j \in 1..Cardinality(starts) |->
          CMIP6Dataset(Group(CHOOSE i \in starts :
                                Cardinality({k \in starts : k < i}) = j - 1), h)]

\* a copy that is the object itself
DeepCopyAlias(h, id) == [ref |-> id, heap |-> h]

\* CMIP6File.copy: deepcopy(self), a new object with the same content
DeepCopy(h, id) == [ref |-> Len(h) + 1, heap |-> Append(h, h[id])]

\* the loop of CMIP6Dataset._filter_years over files[i..]
RECURSIVE FilterYearsLoop(_, _, _, _, _)
FilterYearsLoop(ids, i, temporal_span, h, filtered_files) ==
    IF i > Len(ids) THEN [filtered_files |-> filtered_files, heap |-> h]
    ELSE IF overlapping_spans(StartYear(h[ids[i]].dates), EndYear(h[ids[i]].dates),
                              temporal_span[1], temporal_span[2])
         THEN FilterYearsLoop(ids, i + 1, temporal_span, DeepCopy(h, ids[i]).heap,
                              Append(filtered_files, DeepCopy(h, ids[i]).ref))
         ELSE FilterYearsLoop(ids, i + 1, temporal_span, h, filtered_files)

\* CMIP6Dataset._filter_years: None, or the new dataset of the copies
DatasetFilterYears(dataset, temporal_span, h) ==
    LET r == FilterYearsLoop(dataset.files, 1, temporal_span, h, <<>>)
    IN [new_dataset |-> IF Len(r.filtered_files) = 0 THEN None
                        ELSE CMIP6Dataset(r.filtered_files, r.heap),
        heap |-> r.heap]

\* the methods class CMIP6File defines
CMIP6FileMethods ==
    {"__init__", "__len__", "__getitem__", "__repr__", "copy",
     "_convert_to_sorted_entries", "_make_name", "from_results",
     "filter_entries", "sample_entry_key"}

\* CMIP6Dataset._filter_running_nodes raises AttributeError at its first
\* file: file._filter_running_nodes is no attribute of a CMIP6File
DatasetFilterRunningNodesRaises(dataset) ==
    Len(dataset.files) > 0 /\ "_filter_running_nodes" \notin CMIP6FileMethods

(***************************************************************************)
(* CMIP6Search and the function search() (search/cmip6_search.py).         *)
(***************************************************************************)
\* CMIP6Search.sub_copy raises AttributeError: the keys of
\* datasets_to_local_files are dataset names, and a str has no name
SubCopyRaises(search) == search.datasets_to_local_files # <<>>

\* CMIP6Search.sub_copy with nothing in datasets_to_local_files
SubCopy(search, sub_datasets) ==
    [datasets |-> sub_datasets, datasets_to_local_files |-> <<>>,
     nodes_are_filtered |-> search.nodes_are_filtered,
     members_are_balanced |-> search.members_are_balanced]

\* the loop of CMIP6Search._filter_years over datasets[j..]: the
\* new_dataset of every turn
RECURSIVE SearchFilterYearsLoop(_, _, _, _, _)
SearchFilterYearsLoop(datasets, j, span_kwargs, h, out) ==
    IF j > Len(datasets) THEN [new_datasets |-> out, heap |-> h]
    ELSE LET experiment_temporal_span ==
                 IF datasets[j].experiment_id = "historical"
                 THEN span_kwargs.historical ELSE span_kwargs.projections
             r == DatasetFilterYears(datasets[j], experiment_temporal_span, h)
         IN SearchFilterYearsLoop(datasets, j + 1, span_kwargs, r.heap,
                                  Append(out, r.new_dataset))

\* if new_dataset is not None: new_datasets.append(new_dataset)
NotNone(new_datasets) == SelectSeq(new_datasets, LAMBDA d : d # None)

\* CMIP6Search.strict_variable_set: the datasets of the configurations
\* that have every variable asked for, then _filter_facets on the variable,
\* which keeps dataset.copy() = CMIP6Dataset(self.files)
StrictVariableSet(search, variable_set, h) ==
    LET same_model_configuration(d) == <<d.source_id, d.experiment_id, d.member_id>>
        datasets == Sorted(search.datasets,
                           [i \in 1..Len(search.datasets) |->
                               <<Index(MemberStrOrder, search.datasets[i].member_id)>>])
        observed(d) == {datasets[i].variable :
                          i \in {k \in 1..Len(datasets) :
                                   same_model_configuration(datasets[k]) =
                                   same_model_configuration(d)}}
        valid_datasets == SelectSeq(datasets, LAMBDA d : variable_set \subseteq observed(d))
        matching == SelectSeq(valid_datasets, LAMBDA d : d.variable \in variable_set)
    IN SubCopy(SubCopy(search, valid_datasets),
               [i \in 1..Len(matching) |-> CMIP6Dataset(matching[i].files, h)])

\* the records a search returns: two files of one member, the first of
\* them on two mirrors in two versions, and one file of another member
SearchUniverse ==
    {DatasetRecord("v20200101", DatesStrOrder[1]),
     DatasetRecord("v20190101", DatesStrOrder[1]),
     DatasetRecord("v20200101", DatesStrOrder[2]),
     WithMember(DatasetRecord("v20200101", DatesStrOrder[3]), MemberStrOrder[2])}

\* the temporal spans asked for: [start, stop) in years
SpanUniverse ==
    {<<1850, 1900>>, <<1899, 1900>>, <<1900, 1950>>, <<1950, 2015>>, <<2015, 2101>>}

\* variable_set=None, and no "years" among the filters
NoVariableSet == {"None"}
NoYears == [given |-> FALSE, historical |-> <<>>, projections |-> <<>>]

\* what get_esgf_nodes_status answers: every mirror running; the first
\* down; the second missing from the dictionary
StatusUniverse ==
    {[n \in Range(DataNodeStrOrder) |-> "running"],
     [n \in Range(DataNodeStrOrder) |->
         IF n = DataNodeStrOrder[1] THEN "down" ELSE "running"],
     [n \in Range(DataNodeStrOrder) |->
         IF n = DataNodeStrOrder[2] THEN "missing" ELSE "running"]}

\* the arguments of search(), and what get_esgf_nodes_status would answer
ArgsUniverse ==
    [save_path : {"None", "test.pkl"},
     filter_running_nodes : BOOLEAN,
     num_members : {"None", "1"},
     variable_set : {NoVariableSet, {Variable}, {Variable, "va"}},
     years : {NoYears} \cup {[given |-> TRUE, historical |-> sp,
                              projections |-> <<2015, 2101>>] : sp \in SpanUniverse},
     esgf_nodes_status : StatusUniverse]

InitSearch ==
    /\ results \in {SeqOfSet(S) : S \in SUBSET SearchUniverse}
    /\ files = <<>>
    /\ entry_keys_set = <<>>
    /\ pc = "search_function"
    /\ IdleDownload
    /\ args \in ArgsUniverse
    /\ heap = <<>>
    /\ cmip6_search = NewCMIP6Search
    /\ filter_input = <<>>
    /\ filter_results = <<>>
    /\ spc = "call"
    /\ raised = NoException
    /\ saved = "nothing"
    /\ IdleMethods

\* search() raises the exception kind at the step named
SearchRaises(kind, step) ==
    /\ raised' = [kind |-> kind, step |-> step]
    /\ spc' = "raised"

\* search(): "Check arguments". warnings has no attribute UserWarnings, so
\* the warning of balancing without node filtering is an AttributeError;
\* then assert isinstance(save_path, str)
SearchCheckArguments ==
    /\ spc = "call"
    /\ IF args.num_members # "None" /\ ~args.filter_running_nodes
       THEN SearchRaises("AttributeError", "arguments")
       ELSE IF args.save_path = "None"
            THEN SearchRaises("AssertionError", "arguments")
            ELSE spc' = "checked" /\ raised' = raised
    /\ UNCHANGED <<ovars, results, dvars, args, heap, cmip6_search, filter_input,
                   filter_results, saved>>

\* search(): "basic search": CMIP6Search(...) and cmip6_search.search(facets)
SearchBasic ==
    /\ spc = "checked"
    /\ heap' = FilesFromResults(results)
    /\ cmip6_search' = [NewCMIP6Search EXCEPT !.datasets = DatasetsFromFiles(heap')]
    /\ spc' = "searched"
    /\ UNCHANGED <<ovars, results, dvars, args, filter_input, filter_results, raised, saved>>

\* search(): "strict variable set"
SearchStrictVariableSet ==
    /\ spc = "searched"
    /\ cmip6_search' = IF args.variable_set = NoVariableSet THEN cmip6_search
                        ELSE StrictVariableSet(cmip6_search, args.variable_set, heap)
    /\ spc' = "variables"
    /\ UNCHANGED <<ovars, results, dvars, args, heap, filter_input, filter_results,
                   raised, saved>>

\* search(): "additional filters": CMIP6Search._filter_years when asked for
SearchFilters ==
    /\ spc = "variables"
    /\ IF args.years.given
       THEN LET r == SearchFilterYearsLoop(cmip6_search.datasets, 1, args.years,
                                           heap, <<>>)
            IN /\ filter_input' = cmip6_search.datasets
               /\ filter_results' = r.new_datasets
               /\ heap' = r.heap
               /\ cmip6_search' = SubCopy(cmip6_search, NotNone(r.new_datasets))
       ELSE UNCHANGED <<filter_input, filter_results, heap, cmip6_search>>
    /\ spc' = "filters"
    /\ UNCHANGED <<ovars, results, dvars, args, raised, saved>>

\* search(): "running nodes": CMIP6Search._filter_running_nodes when asked
\* for; the first dataset's _filter_running_nodes raises
SearchRunningNodes ==
    /\ spc = "filters"
    /\ IF ~args.filter_running_nodes
       THEN spc' = "nodes" /\ UNCHANGED <<cmip6_search, raised>>
       ELSE IF \E j \in 1..Len(cmip6_search.datasets) :
                   DatasetFilterRunningNodesRaises(cmip6_search.datasets[j])
            THEN SearchRaises("AttributeError", "running_nodes")
                 /\ UNCHANGED cmip6_search
            ELSE /\ cmip6_search' = [SubCopy(cmip6_search, <<>>)
                                        EXCEPT !.nodes_are_filtered = TRUE]
                 /\ spc' = "nodes"
                 /\ raised' = raised
    /\ UNCHANGED <<ovars, results, dvars, args, heap, filter_input, filter_results, saved>>

\* search(): "balance members"; the nodes were filtered when this runs, and
\* that left no dataset: nothing to sample from
SearchBalanceMembers ==
    /\ spc = "nodes"
    /\ IF args.num_members = "None"
       THEN UNCHANGED cmip6_search
       ELSE /\ cmip6_search.nodes_are_filtered
            /\ cmip6_search.datasets = <<>>
            /\ cmip6_search' = [SubCopy(cmip6_search, <<>>)
                                   EXCEPT !.members_are_balanced = TRUE]
    /\ spc' = "balanced"
    /\ UNCHANGED <<ovars, results, dvars, args, heap, filter_input, filter_results,
                   raised, saved>>

\* search(): "save" and return; pickling works or its exception is logged
SearchSave(written) ==
    /\ spc = "balanced"
    /\ saved' = IF args.save_path # "None" /\ written THEN "cmip6_search" ELSE saved
    /\ spc' = "returned"
    /\ UNCHANGED <<ovars, results, dvars, args, heap, cmip6_search, filter_input,
                   filter_results, raised>>

\* the caller changes a file of a dataset search() returned: dataset[i]
\* is the CMIP6File object itself, and its entries are plain lists
CallerDropsEntry(j, i) ==
    /\ spc = "returned"
    /\ Len(heap[cmip6_search.datasets[j].files[i]].entries) > 0
    /\ heap' = [heap EXCEPT ![cmip6_search.datasets[j].files[i]] =
                   [@ EXCEPT !.entries = Tail(@), !.entry_keys = Tail(@)]]
    /\ UNCHANGED <<ovars, results, dvars, args, cmip6_search, filter_input,
                   filter_results, spc, raised, saved>>

NextSearch ==
    \/ SearchCheckArguments
    \/ SearchBasic
    \/ SearchStrictVariableSet
    \/ SearchFilters
    \/ SearchRunningNodes
    \/ SearchBalanceMembers
    \/ \E written \in BOOLEAN : SearchSave(written)
    \/ \E j \in 1..Len(cmip6_search.datasets) :
          \E i \in 1..Len(cmip6_search.datasets[j].files) : CallerDropsEntry(j, i)

SpecSearch == InitSearch /\ [][NextSearch]_vars

(***************************************************************************)
(* SpecMethods: the methods of class CMIP6Search, called in any order on   *)
(* the object the caller holds (search/cmip6_search.py).                   *)
(***************************************************************************)
\* a method returned the object new, the heap being h
Ok(new, h) == [raises |-> "None", new |-> new, heap |-> h]

\* a method raised the exception kind
Err(kind, h) == [raises |-> kind, new |-> None, heap |-> h]

\* dict[key] = value, in insertion order
DictSet(dict, key, value) ==
    IF \E i \in 1..Len(dict) : dict[i].name = key
    THEN [i \in 1..Len(dict) |->
            IF dict[i].name = key THEN [name |-> key, local_files |-> value]
            ELSE dict[i]]
    ELSE Append(dict, [name |-> key, local_files |-> value])

\* CMIP6Search.copy: a new object with the same four attributes
Copy(search) ==
    [datasets |-> search.datasets,
     datasets_to_local_files |-> search.datasets_to_local_files,
     nodes_are_filtered |-> search.nodes_are_filtered,
     members_are_balanced |-> search.members_are_balanced]

\* CMIP6Search.sub_copy: the comprehension over datasets_to_local_files
\* raises at its first item, or there is no item
sub_copy(search, sub_datasets, h) ==
    IF SubCopyRaises(search) THEN Err("AttributeError", h)
    ELSE Ok(SubCopy(search, sub_datasets), h)

\* CMIP6Search._filter_running_nodes
FilterRunningNodes(search, h) ==
    IF search.nodes_are_filtered THEN Ok(Copy(search), h)
    ELSE IF \E j \in 1..Len(search.datasets) :
                DatasetFilterRunningNodesRaises(search.datasets[j])
         THEN Err("AttributeError", h)
         ELSE LET r == sub_copy(search, <<>>, h)
              IN IF r.raises # "None" THEN r
                 ELSE Ok([r.new EXCEPT !.nodes_are_filtered = TRUE], h)

\* CMIP6Search._filter_facets with one facet: the copies of the datasets
\* whose facet is among the values
FilterFacets(search, facet_name, facet_values, h) ==
    LET matches == SelectSeq(search.datasets, LAMBDA d : d[facet_name] \in facet_values)
    IN sub_copy(search, [i \in 1..Len(matches) |-> CMIP6Dataset(matches[i].files, h)], h)

\* CMIP6Search._filter_years
FilterYears(search, span_kwargs, h) ==
    LET r == SearchFilterYearsLoop(search.datasets, 1, span_kwargs, h, <<>>)
    IN IF SubCopyRaises(search) THEN Err("AttributeError", h)
       ELSE Ok(SubCopy(search, NotNone(r.new_datasets)), r.heap)

\* the orders random.shuffle can leave a list in
Shuffles(seq) ==
    {[i \in 1..Len(seq) |-> seq[f[i]]] :
        f \in {g \in [1..Len(seq) -> 1..Len(seq)] :
                  \A i, j \in 1..Len(seq) : i # j => g[i] # g[j]}}

\* the balancing logic of balance_members with tolerance 0: all datasets
\* are of one source and experiment, so count_members has one row; the row
\* is dropped below num_members and .iloc[0] then raises IndexError
BalancingLogic(search, num_members, shuffled, h) ==
    LET n == Len(search.datasets)
        n_to_sample == IF n < num_members THEN n ELSE num_members
        r == sub_copy(search, SubSeq(shuffled, 1, n_to_sample), h)
    IN IF n > 0 /\ n < num_members THEN Err("IndexError", h)
       ELSE IF r.raises # "None" THEN r
       ELSE Ok([r.new EXCEPT !.members_are_balanced = TRUE], h)

\* CMIP6Search.balance_members
BalanceMembers(search, num_members, filter_running_nodes, shuffled, h) ==
    IF ~search.nodes_are_filtered /\ filter_running_nodes
    THEN LET f == FilterRunningNodes(search, h)
         IN IF f.raises # "None" THEN f
            ELSE BalancingLogic(f.new, num_members, f.new.datasets, h)
    ELSE BalancingLogic(search, num_members, shuffled, h)

\* CMIP6Search.splitby on split_keys: one sub_copy per run of datasets of
\* equal facets; only member_id differs between the datasets of the model
Splitby(search, split_keys, h) ==
    LET same_split(d) == [i \in 1..Len(split_keys) |-> d[split_keys[i]]]
        rank(d) == IF "member_id" \in Range(split_keys)
                   THEN <<Index(MemberStrOrder, d.member_id)>> ELSE <<0>>
        datasets == Sorted(search.datasets,
                           [i \in 1..Len(search.datasets) |-> rank(search.datasets[i])])
        starts == RunStarts([i \in 1..Len(datasets) |-> same_split(datasets[i])])
        Group(i) == SelectSeq(datasets, LAMBDA d : same_split(d) = same_split(datasets[i]))
        nth(j) == CHOOSE i \in starts : Cardinality({k \in starts : k < i}) = j - 1
    IN IF datasets # <<>> /\ SubCopyRaises(search)
       THEN [raises |-> "AttributeError", new_searches |-> <<>>]
       ELSE [raises |-> "None",
             new_searches |-> [j \in 1..Cardinality(starts) |->
                                 SubCopy(search, Group(nth(j)))]]

\* what CMIP6Dataset.download can end with, as the mirrors decide: the
\* paths of a key reached without a ValueError of sample_entry_key, that
\* ValueError, or the DownloadError after the last key
DatasetDownloadOutcomes(dataset, h) ==
    LET fs == Deref(h, dataset.files)
        keys == dataset.entry_keys_set
        reached == {k \in 1..Len(keys) : \A m \in 1..k : ~SampleRaises(fs, keys[m])}
    IN {[kind |-> "returned",
         local_files |-> [i \in 1..Len(fs) |->
                            LocalFile(FileSampleEntryKey(fs[i], keys[k]), DestFolder)]] :
           k \in reached}
       \cup (IF reached = 1..Len(keys)
             THEN {[kind |-> "DownloadError", local_files |-> <<>>]}
             ELSE {[kind |-> "ValueError", local_files |-> <<>>]})

InitMethods ==
    /\ results \in {SeqOfSet(S) : S \in SUBSET SearchUniverse}
    /\ files = <<>>
    /\ entry_keys_set = <<>>
    /\ pc = "methods"
    /\ IdleDownload
    /\ args \in [esgf_nodes_status : StatusUniverse]
    /\ heap = <<>>
    /\ cmip6_search = NewCMIP6Search
    /\ filter_input = <<>>
    /\ filter_results = <<>>
    /\ spc = "object"
    /\ raised = NoException
    /\ saved = "nothing"
    /\ IdleMethods

\* the caller calls a method of the object it holds
MethodCalled == pc = "methods" /\ spc = "object" /\ ops < MaxOps

\* the method returns new, which the caller goes on with
MethodReturns(op, new, h) ==
    /\ cmip6_search' = new
    /\ heap' = h
    /\ raised' = NoException
    /\ derived' = [op |-> op, self |-> cmip6_search, new |-> new]
    /\ ops' = ops + 1
    /\ UNCHANGED <<results, dvars, args, filter_input, filter_results, spc, saved,
                   comprehension>>

\* the method raises: the caller keeps the object it had
MethodRaises(op, kind) ==
    /\ raised' = [kind |-> kind, step |-> op]
    /\ derived' = [op |-> op, self |-> cmip6_search, new |-> None]
    /\ ops' = ops + 1
    /\ UNCHANGED <<results, dvars, args, heap, cmip6_search, filter_input,
                   filter_results, spc, saved, comprehension>>

\* the method ends as r says
MethodEnds(op, r) ==
    IF r.raises = "None" THEN MethodReturns(op, r.new, r.heap)
    ELSE MethodRaises(op, r.raises)

\* CMIP6Search.search(facets): self.datasets is replaced, nothing else is
CallSearch ==
    /\ MethodCalled
    /\ LET h == FilesFromResults(results)
       IN MethodReturns("search", [cmip6_search EXCEPT !.datasets = DatasetsFromFiles(h)], h)

CallCopy ==
    /\ MethodCalled
    /\ MethodReturns("copy", Copy(cmip6_search), heap)

\* sub_copy(sub_datasets) with the datasets at the positions P
CallSubCopy(P) ==
    /\ MethodCalled
    /\ MethodEnds("sub_copy", sub_copy(cmip6_search, SelectAt(cmip6_search.datasets, P, 1), heap))

\* filter("running_nodes")
CallFilterRunningNodes ==
    /\ MethodCalled
    /\ MethodEnds("_filter_running_nodes", FilterRunningNodes(cmip6_search, heap))

\* filter("facets", member_id=member_ids)
CallFilterFacets(member_ids) ==
    /\ MethodCalled
    /\ MethodEnds("_filter_facets", FilterFacets(cmip6_search, "member_id", member_ids, heap))

\* filter("years", historical=span, projections=[2015, 2101])
CallFilterYears(span) ==
    /\ MethodCalled
    /\ MethodEnds("_filter_years",
                  FilterYears(cmip6_search,
                              [given |-> TRUE, historical |-> span,
                               projections |-> <<2015, 2101>>], heap))

CallStrictVariableSet(variable_set) ==
    /\ MethodCalled
    /\ MethodEnds("strict_variable_set",
                  IF SubCopyRaises(cmip6_search) THEN Err("AttributeError", heap)
                  ELSE Ok(StrictVariableSet(cmip6_search, variable_set, heap), heap))

CallBalanceMembers(num_members, filter_running_nodes) ==
    /\ MethodCalled
    /\ \E shuffled \in Shuffles(cmip6_search.datasets) :
          MethodEnds("balance_members",
                     BalanceMembers(cmip6_search, num_members, filter_running_nodes,
                                    shuffled, heap))

\* splitby(split_keys); the caller goes on with the search number pick of
\* the list, or with the object it had when the list is empty
CallSplitby(split_keys, pick) ==
    /\ MethodCalled
    /\ LET r == Splitby(cmip6_search, split_keys, heap)
       IN IF r.raises # "None" THEN pick = 0 /\ MethodRaises("splitby", r.raises)
          ELSE IF r.new_searches = <<>>
               THEN /\ pick = 0
                    /\ raised' = NoException
                    /\ derived' = [op |-> "splitby", self |-> cmip6_search, new |-> None]
                    /\ ops' = ops + 1
                    /\ UNCHANGED <<results, dvars, args, heap, cmip6_search, filter_input,
                                   filter_results, spc, saved, comprehension>>
               ELSE /\ pick \in 1..Len(r.new_searches)
                    /\ MethodReturns("splitby", r.new_searches[pick], heap)

\* CMIP6Search.download is called: self.datasets is a list, the warnings
\* are logged and the dict comprehension begins
CallDownload ==
    /\ MethodCalled
    /\ spc' = "download"
    /\ comprehension' = [j |-> 1, dict |-> <<>>, attempted |-> <<>>,
                         before |-> cmip6_search.datasets_to_local_files]
    /\ derived' = [op |-> "download", self |-> cmip6_search, new |-> None]
    /\ raised' = NoException
    /\ ops' = ops + 1
    /\ UNCHANGED <<results, dvars, args, heap, cmip6_search, filter_input,
                   filter_results, saved>>

\* a download that stores every dataset's paths as soon as it has them
DatasetDownloadReturnsStoresAtOnce(out) ==
    /\ pc = "methods"
    /\ spc = "download"
    /\ comprehension.j <= Len(cmip6_search.datasets)
    /\ out \in DatasetDownloadOutcomes(cmip6_search.datasets[comprehension.j], heap)
    /\ out.kind = "returned"
    /\ comprehension' =
          [comprehension EXCEPT
              !.j = @ + 1,
              !.dict = DictSet(@, cmip6_search.datasets[comprehension.j].name,
                               out.local_files),
              !.attempted = Append(@, cmip6_search.datasets[comprehension.j].name)]
    /\ cmip6_search' = [cmip6_search EXCEPT !.datasets_to_local_files =
                           DictSet(@, cmip6_search.datasets[comprehension.j].name,
                                   out.local_files)]
    /\ UNCHANGED <<results, dvars, args, heap, filter_input, filter_results,
                   spc, raised, saved, derived, ops>>

\* the comprehension's next dataset.download(dest_folder, max_workers)
\* returns its local files: one more item of the dict being built
DatasetDownloadReturns(out) ==
    /\ pc = "methods"
    /\ spc = "download"
    /\ comprehension.j <= Len(cmip6_search.datasets)
    /\ out \in DatasetDownloadOutcomes(cmip6_search.datasets[comprehension.j], heap)
    /\ out.kind = "returned"
    /\ comprehension' =
          [comprehension EXCEPT
              !.j = @ + 1,
              !.dict = DictSet(@, cmip6_search.datasets[comprehension.j].name,
                               out.local_files),
              !.attempted = Append(@, cmip6_search.datasets[comprehension.j].name)]
    /\ UNCHANGED <<results, dvars, args, heap, cmip6_search, filter_input,
                   filter_results, spc, raised, saved, derived, ops>>

\* the comprehension's next dataset.download raises: the exception leaves
\* CMIP6Search.download and the dict being built is dropped
DatasetDownloadRaises(out) ==
    /\ pc = "methods"
    /\ spc = "download"
    /\ comprehension.j <= Len(cmip6_search.datasets)
    /\ out \in DatasetDownloadOutcomes(cmip6_search.datasets[comprehension.j], heap)
    /\ out.kind # "returned"
    /\ comprehension' =
          [comprehension EXCEPT
              !.attempted = Append(@, cmip6_search.datasets[comprehension.j].name)]
    /\ raised' = [kind |-> out.kind, step |-> "download"]
    /\ spc' = "object"
    /\ UNCHANGED <<results, dvars, args, heap, cmip6_search, filter_input,
                   filter_results, saved, derived, ops>>

\* the comprehension is over: self.datasets_to_local_files = the dict
DownloadAssigns ==
    /\ pc = "methods"
    /\ spc = "download"
    /\ comprehension.j > Len(cmip6_search.datasets)
    /\ cmip6_search' = [cmip6_search EXCEPT
                           !.datasets_to_local_files = comprehension.dict]
    /\ comprehension' = [comprehension EXCEPT !.j = 0]
    /\ spc' = "object"
    /\ UNCHANGED <<results, dvars, args, heap, filter_input, filter_results,
                   raised, saved, derived, ops>>

\* the outcomes a dataset download of the model can have
OutcomeUniverse ==
    UNION {DatasetDownloadOutcomes(cmip6_search.datasets[j], heap) :
              j \in 1..Len(cmip6_search.datasets)}

NextMethods ==
    \/ CallSearch
    \/ CallCopy
    \/ \E P \in SUBSET (1..Len(cmip6_search.datasets)) : CallSubCopy(P)
    \/ CallFilterRunningNodes
    \/ \E member_ids \in SUBSET Range(MemberStrOrder) : CallFilterFacets(member_ids)
    \/ \E span \in SpanUniverse : CallFilterYears(span)
    \/ \E variable_set \in {{Variable}, {Variable, "va"}} :
          CallStrictVariableSet(variable_set)
    \/ \E num_members \in 1..2, filter_running_nodes \in BOOLEAN :
          CallBalanceMembers(num_members, filter_running_nodes)
    \/ \E split_keys \in {<<"member_id">>, <<"source_id", "variable">>} :
          \E pick \in 0..Len(cmip6_search.datasets) : CallSplitby(split_keys, pick)
    \/ CallDownload
    \/ \E out \in OutcomeUniverse : DatasetDownloadReturns(out)
    \/ \E out \in OutcomeUniverse : DatasetDownloadRaises(out)
    \/ DownloadAssigns

SpecMethods == InitMethods /\ [][NextMethods]_vars

(***************************************************************************)
(* Properties of CMIP6Dataset construction and download (under Spec).      *)
(***************************************************************************)
\* the composite key of the ordering: table priority, version newest
\* first, grid priority
CompositeKey(entry_key) ==
    <<Index(TableIdOrdering, entry_key[1]),
      0 - convert_version_to_datetime(entry_key[2]),
      Index(GridLabelOrdering, entry_key[3])>>

\* the dataset exists
Constructed == pc \in {"ready", "loop", "batch", "returned", "raised"}

\* a download call has ended
CallOver == pc \in {"returned", "raised"}

\* the keys every file of fs[1..n] has
CommonKeys(fs, n) ==
    {k \in UNION {Range(fs[i].entry_keys) : i \in 1..n} :
        \A i \in 1..n : k \in Range(fs[i].entry_keys)}

\* the downloads of key number k that ended with an error
Failures(k) == {b \in finished : b.k = k /\ b.error # "None"}

\* the files whose download for key number k returned
Successes(k) == {b.file : b \in {c \in finished : c.k = k /\ c.error = "None"}}

\* C1: the common-key set of a constructed dataset is the exact
\* intersection of its files' key sets: each of its keys is in every file,
\* each other key is missing from some file, and once the running
\* intersection of a prefix of the files is empty the result is empty.
C1_ExactIntersection ==
    Constructed =>
        /\ Range(entry_keys_set) = CommonKeys(files, Len(files))
        /\ (\E n \in 1..Len(files) : CommonKeys(files, n) = {})
              => entry_keys_set = <<>>

\* C2: download attempts the keys in their stored order, one at a time: a
\* replica download of a key begins only when every download of every
\* earlier key has ended, and ended with some error; the call returns at
\* the first key whose batch has no error, with one path per file, all of
\* that key, and begins nothing for a later key. With two keys, one failed
\* replica in the first batch and a clean second batch, the call returns
\* the second key's paths and the first key's error is only recorded.
C2_SequentialFailover ==
    /\ \A a \in started :
          /\ a.k \in 1..Len(entry_keys_set)
          /\ a.k <= keyIdx
          /\ a.entry_key = entry_keys_set[a.k]
          /\ \A k \in 1..(a.k - 1) :
                /\ \A i \in 1..Len(files) : \E b \in finished : b.k = k /\ b.file = i
                /\ Failures(k) # {}
    /\ pc = "returned" =>
          /\ outcome.kind = "returned"
          /\ Failures(keyIdx) = {}
          /\ Successes(keyIdx) = 1..Len(files)
          /\ \A k \in 1..(keyIdx - 1) : Failures(k) # {}
          /\ Len(outcome.local_files) = Len(files)
          /\ Range(outcome.local_files) =
                {LocalFile(FileSampleEntryKey(files[i], entry_keys_set[keyIdx]), DestFolder) :
                    i \in 1..Len(files)}
    /\ (/\ CallOver
        /\ Len(entry_keys_set) = 2
        /\ Cardinality(Failures(1)) = 1
        /\ Successes(2) = 1..Len(files))
          => /\ pc = "returned"
             /\ outcome.kind = "returned"
             /\ Range(outcome.local_files) = {b.path : b \in {c \in finished : c.k = 2}}
             /\ Len(ErrorsOf(errors, entry_keys_set[1])) = 1

\* C2 witness: the call returned at the second of two keys, for two files,
\* after exactly one replica of the first key had failed
C2_Witness ==
    /\ pc = "returned"
    /\ keyIdx = 2
    /\ Len(files) = 2
    /\ Cardinality(Failures(1)) = 1
    /\ Len(outcome.local_files) = 2

\* C3: while keys remain nothing is raised out of download; the
\* DownloadError is raised after the last key only, names the dataset and
\* lists, for every key in order, all the errors of that key's replica
\* downloads; and a call in which every key had a failed download ends
\* with that DownloadError.
C3_AggregateError ==
    /\ pc \in {"loop", "batch"} => outcome = NoOutcome
    /\ outcome.kind \in {"none", "returned", "DownloadError", "ValueError"}
    /\ outcome.kind = "DownloadError" =>
          /\ pc = "raised"
          /\ keyIdx = Len(entry_keys_set) + 1
          /\ outcome.dataset = DatasetName(files)
          /\ Len(outcome.report) = Len(entry_keys_set)
          /\ \A k \in 1..Len(entry_keys_set) :
                /\ outcome.report[k].entry_key = entry_keys_set[k]
                /\ outcome.report[k].errors # <<>>
                /\ Len(outcome.report[k].errors) = Cardinality(Failures(k))
                /\ Range(outcome.report[k].errors) =
                      {[path |-> b.path, kind |-> b.error] : b \in Failures(k)}
    /\ (CallOver /\ \A k \in 1..Len(entry_keys_set) : Failures(k) # {})
          => outcome.kind = "DownloadError"

\* C3 witness: the DownloadError was raised after two keys, one of them
\* with two failed replicas
C3_Witness ==
    /\ outcome.kind = "DownloadError"
    /\ Len(entry_keys_set) = 2
    /\ \E k \in 1..2 : Cardinality(Failures(k)) = 2

\* C4: for every key of the common-key set and every file, sample_entry_key
\* does not fail and selects an entry of that file carrying the key; a
\* download that returned gives one path per file, all of one key.
C4_SelectionNeverFails ==
    Constructed =>
        /\ \A j \in 1..Len(entry_keys_set), i \in 1..Len(files) :
              /\ ~FileSampleRaises(files[i], entry_keys_set[j])
              /\ FileSampleEntryKey(files[i], entry_keys_set[j]).entry_key
                    = entry_keys_set[j]
        /\ pc = "returned" =>
              /\ Len(outcome.local_files) = Len(files)
              /\ \A a \in {b \in finished : b.k = keyIdx} :
                    a.entry_key = entry_keys_set[keyIdx]

\* C5: a dataset whose files have no key in common is constructed with an
\* empty common-key set; a download of it begins no replica download and
\* ends with a DownloadError.
C5_NoCommonKey ==
    (Constructed /\ CommonKeys(files, Len(files)) = {}) =>
        /\ entry_keys_set = <<>>
        /\ started = {}
        /\ CallOver => outcome.kind = "DownloadError"

\* C6: a replica download that finds a valid file at its local path ends
\* at once by returning that path, having issued no request and left the
\* file as it was; and in every step a valid local file stays valid and no
\* request is issued for its path, however many calls are made.
C6_IdempotentOnValidFile ==
    /\ [](\A i \in 1..Len(workers) :
            workers[i].found = "valid" =>
                /\ workers[i].st = "done"
                /\ workers[i].error = "None"
                /\ workers[i].local_file = LocalFile(workers[i].entry, DestFolder)
                /\ workers[i].requests = 0
                /\ workers[i].tmp = "absent"
                /\ disk[workers[i].path] = "valid")
    /\ [][\A p \in AllPaths :
            disk[p] = "valid" => (disk'[p] = "valid" /\ net'[p] = net[p])]_vars

\* C6 witness: in a second call, a download found the valid file an earlier
\* call had stored and returned it
C6_Witness ==
    /\ calls = 2
    /\ \E i \in 1..Len(workers) :
          /\ workers[i].found = "valid"
          /\ workers[i].st = "done"
          /\ net[workers[i].path] = 1

\* C7: a replica with a checksum algorithm whose payload's digest differs
\* from the declared one ends with the DownloadError of the checksum, not
\* with a request or file error, returns no path and leaves no file at the
\* local path, none having been there before.
C7_ChecksumMismatch ==
    \A i \in 1..Len(workers) :
        (/\ workers[i].st = "done"
         /\ workers[i].entry.checksum_type # "None"
         /\ workers[i].payload = "corrupt")
          => /\ workers[i].error = "DownloadError"
             /\ workers[i].local_file = <<>>
             /\ workers[i].found = "absent"
             /\ disk[workers[i].path] = "absent"

\* C7 witness: a download with a checksum ended on a corrupt payload
C7_Witness ==
    \E i \in 1..Len(workers) :
        /\ workers[i].st = "done"
        /\ workers[i].entry.checksum_type = "SHA256"
        /\ workers[i].payload = "corrupt"
        /\ workers[i].error = "DownloadError"

\* C8: a replica download that finds an invalid file at its local path
\* ends at once with the OSError handed to its caller, having issued no
\* request and written nothing: the invalid file is still there.
C8_InvalidLocalFile ==
    \A i \in 1..Len(workers) :
        workers[i].found = "invalid" =>
            /\ workers[i].st = "done"
            /\ workers[i].error = "OSError"
            /\ workers[i].local_file = <<>>
            /\ workers[i].requests = 0
            /\ workers[i].payload = "none"
            /\ workers[i].tmp = "absent"
            /\ disk[workers[i].path] = "invalid"
            /\ workers[i].collected =>
                  [path |-> workers[i].path, kind |-> "OSError"]
                      \in Range(ErrorsOf(errors, workers[i].entry.entry_key))

\* C8 witness: a download found an invalid local file and its error was
\* collected
C8_Witness ==
    \E i \in 1..Len(workers) :
        /\ workers[i].found = "invalid"
        /\ workers[i].collected

\* C12: the common entry keys of a constructed dataset are in the order of
\* the composite key (table priority, newest version first, grid priority):
\* of two keys of one table the newer version comes first, and download
\* attempts it first.
C12_CommonKeysNewestFirst ==
    Constructed =>
        \A i \in 1..(Len(entry_keys_set) - 1) :
            ~TupleLess(CompositeKey(entry_keys_set[i + 1]),
                       CompositeKey(entry_keys_set[i]))

\* C17 as stated: the local path of every download is the destination
\* folder, the six directories model, experiment, member, table, variable
\* and version, and the file name, with nothing else in between.
C17_SixFacetPath ==
    \A i \in 1..Len(workers) :
        workers[i].path =
            <<DestFolder, SourceId, ExperimentId, MemberId,
              workers[i].entry.entry_key[1], Variable,
              workers[i].entry.entry_key[2],
              workers[i].entry.name \o <<"nc">>>>

\* C17 amended: the local path of every download is the destination
\* folder, the eight directories project, activity, model, experiment,
\* member, table, variable and version, and the file name; the mirror and
\* the checksum take no part in it.
C17_EightFacetPath ==
    \A i \in 1..Len(workers) :
        workers[i].path =
            <<DestFolder, Project, ActivityId, SourceId, ExperimentId, MemberId,
              workers[i].entry.entry_key[1], Variable,
              workers[i].entry.entry_key[2],
              workers[i].entry.name \o <<"nc">>>>

\* C17 witness: a download stored its file and returned the path
C17_Witness ==
    \E i \in 1..Len(workers) :
        /\ workers[i].local_file = workers[i].path
        /\ workers[i].payload = "intact"
        /\ disk[workers[i].path] = "valid"

\* the batch of key number k has been decided: download returned its
\* paths or went on to the next key
Decided(k) == k < keyIdx \/ (k = keyIdx /\ pc = "returned")

\* C19: no replica download is cancelled or skipped because a sibling
\* failed: a future is queued, running or done, never anything else; and
\* when the batch of a key is decided, the download of every file's
\* replica was begun and has ended, by returning or with an error, and
\* every error of the batch is in the key's error list.
C19_NoSiblingCancelled ==
    /\ \A i \in 1..Len(workers) :
          /\ workers[i].st \in {"queued", "streaming", "written", "done"}
          /\ workers[i].collected => workers[i].st = "done"
    /\ \A k \in 1..Len(entry_keys_set) :
          Decided(k) =>
              /\ \A i \in 1..Len(files) :
                    /\ \E a \in started : a.k = k /\ a.file = i
                    /\ \E b \in finished : b.k = k /\ b.file = i
              /\ Len(ErrorsOf(errors, entry_keys_set[k])) = Cardinality(Failures(k))

\* C19 witness: with a pool of one thread, the first replica of a batch
\* failed and its sibling, begun after it, was downloaded and stored
C19_Witness ==
    /\ max_workers = 1
    /\ Decided(1)
    /\ Len(files) = 2
    /\ \E b \in Failures(1) : b.file = 1
    /\ Successes(1) = {2}

C24_AttemptedAtMostOnce ==
    /\ [](\A i, j \in 1..Len(entry_keys_set) :
            i # j => entry_keys_set[i] # entry_keys_set[j])
    /\ [](pc = "batch" =>
            \A i \in 1..Len(workers) :
                /\ workers[i].requests <= 1
                /\ workers[i].st = "queued" =>
                      \A a \in started :
                          ~(a.file = i /\ a.entry_key = workers[i].entry.entry_key))
    /\ [][(keyIdx' # keyIdx /\ calls' = calls) => keyIdx' = keyIdx + 1]_vars
    /\ [][(pc = "batch" /\ pc' = "batch") =>
            \A i \in 1..Len(workers) :
                workers[i].st # "queued" =>
                    /\ workers'[i].st # "queued"
                    /\ workers'[i].requests = workers[i].requests
                    /\ workers'[i].entry = workers[i].entry]_vars

\* C24 witness: the batch of the second key is queued after a replica of
\* the first key has failed on its request or on its checksum
C24_Witness ==
    /\ pc = "batch"
    /\ keyIdx = 2
    /\ \A i \in 1..Len(workers) : workers[i].st = "queued"
    /\ \E b \in Failures(1) : b.error \in {"RequestException", "DownloadError"}

\* C25: the replicas of one batch have pairwise different local paths.
C25_DistinctLocalPaths ==
    pc = "batch" =>
        \A i, j \in 1..Len(workers) :
            i # j => workers[i].path # workers[j].path

\* C25 witness: two replicas of one batch are being streamed at once
C25_Witness ==
    /\ pc = "batch"
    /\ max_workers = 2
    /\ \E i, j \in 1..Len(workers) :
          /\ i # j
          /\ workers[i].st = "streaming"
          /\ workers[j].st = "streaming"

\* C26: download removes no file: no step takes a file away from a local
\* path, so every path a replica download of this call returned, in a
\* failed batch as well, still holds a file; and the paths a call returns
\* are those of the key that succeeded only.
C26_FailedBatchFilesStay ==
    /\ [][\A p \in AllPaths : disk[p] # "absent" => disk'[p] # "absent"]_vars
    /\ [](\A b \in finished : b.error = "None" => disk[b.path] # "absent")
    /\ [](pc = "returned" =>
            \A b \in finished :
                b.path \in Range(outcome.local_files) <=> b.k = keyIdx)

\* C26 witness: the call returned the paths of the second key while a file
\* of the first key, stored by this call in the failed batch, is on disk
C26_Witness ==
    /\ pc = "returned"
    /\ keyIdx = 2
    /\ \E i \in 1..Len(workers) : workers[i].requests = 1
    /\ \E b \in finished :
          /\ b.k = 1
          /\ b.error = "None"
          /\ net[b.path] = 1
          /\ disk[b.path] # "absent"
          /\ b.path \notin Range(outcome.local_files)

(***************************************************************************)
(* Properties of CMIP6File construction (under SpecFile).                  *)
(***************************************************************************)
\* C9: the entry_keys of a constructed CMIP6File hold no key twice.
C9_UniqueEntryKeys ==
    pc = "file_built" =>
        \A i, j \in 1..Len(files[1].entry_keys) :
            i # j => files[1].entry_keys[i] # files[1].entry_keys[j]

\* C10: the entries of a constructed CMIP6File are in the order of the
\* composite key: no entry's key is less than the key of the entry before.
C10_CompositeOrder ==
    pc = "file_built" =>
        \A i \in 1..(Len(files[1].entry_keys) - 1) :
            ~TupleLess(CompositeKey(files[1].entry_keys[i + 1]),
                       CompositeKey(files[1].entry_keys[i]))

\* the sequences that hold the elements of seq in another order
PermutationsOf(seq) ==
    {[i \in 1..Len(seq) |-> seq[f[i]]] :
        f \in {g \in [1..Len(seq) -> 1..Len(seq)] :
                  \A i, j \in 1..Len(seq) : i # j => g[i] # g[j]}}

\* C11: a CMIP6File built from the same records in any other order has
\* the same entries and the same entry_keys, and a construction that
\* raises does so for every order of the records.
C11_PermutationDeterminism ==
    /\ pc = "file_built" =>
          \A p \in PermutationsOf(results) :
              /\ ~FileSortRaises(p)
              /\ CMIP6File(p).entries = files[1].entries
              /\ CMIP6File(p).entry_keys = files[1].entry_keys
    /\ pc = "file_ValueError" =>
          \A p \in PermutationsOf(results) : FileSortRaises(p)

\* C11 witness: a file built from two versions of one file on one mirror,
\* the older one given first: the newer one is the entry kept
C11_Witness ==
    /\ pc = "file_built"
    /\ Len(results) = 2
    /\ results[1].filename = results[2].filename
    /\ results[1].data_node = results[2].data_node
    /\ get_version(results[1]) = "v20190101"
    /\ get_version(results[2]) = "v20200101"
    /\ files[1].entry_keys = <<CMIP6Entry(results[2]).entry_key>>

\* the records of rs whose version stamp reads as vYYYYMMDD
Parseable(rs) == SelectSeq(rs, LAMBDA r : get_version(r) \in DOMAIN VersionDate)

\* the (file identity, mirror) pairs among the parseable records of rs
PairsOf(rs) ==
    {<<Stem(Parseable(rs)[i].filename), Parseable(rs)[i].data_node>> :
        i \in 1..Len(Parseable(rs))}

\* the newest version date among the parseable records of rs of one pair
NewestOf(rs, pair) ==
    LET dates == {VersionDate[get_version(Parseable(rs)[i])] :
                     i \in {j \in 1..Len(Parseable(rs)) :
                               <<Stem(Parseable(rs)[j].filename),
                                 Parseable(rs)[j].data_node>> = pair}}
    IN CHOOSE d \in dates : \A e \in dates : e <= d

\* C21: a constructed CMIP6File holds exactly one entry for each (file
\* identity, mirror) pair present among the records whose version parses,
\* and the entry kept for a pair carries the newest version of that pair.
C21_OneEntryPerPair ==
    pc = "file_built" =>
        /\ Len(files[1].entries) = Cardinality(PairsOf(results))
        /\ \A pair \in PairsOf(results) :
              \E i \in 1..Len(files[1].entries) :
                  /\ <<files[1].entries[i].name, files[1].entries[i].data_node>> = pair
                  /\ VersionDate[files[1].entries[i].entry_key[2]]
                        = NewestOf(results, pair)
        /\ \A i, j \in 1..Len(files[1].entries) :
              (i # j) => <<files[1].entries[i].name, files[1].entries[i].data_node>>
                           # <<files[1].entries[j].name, files[1].entries[j].data_node>>

\* C21 witness: two versions of one file on one mirror, in either order,
\* have left one entry
C21_Witness ==
    /\ pc = "file_built"
    /\ Len(results) = 2
    /\ Stem(results[1].filename) = Stem(results[2].filename)
    /\ results[1].data_node = results[2].data_node
    /\ get_version(results[1]) = "v20200101"
    /\ get_version(results[2]) = "v20190101"
    /\ Len(files[1].entries) = 1
    /\ files[1].entries[1].entry_key[2] = "v20200101"

\* C22: a record whose version stamp does not parse is dropped without an
\* error: the entries are those of a construction from the other records
\* alone, and a construction that raises does so for the other records alone.
C22_InvalidVersionDiscarded ==
    /\ pc = "file_built" =>
          /\ ~FileSortRaises(Parseable(results))
          /\ files[1].entries = ConvertToSortedEntries(Parseable(results))
    /\ pc = "file_ValueError" => FileSortRaises(Parseable(results))

\* C22 witness: a file built from a record with an unreadable version
\* followed by a record with a readable one, which is the entry kept
C22_Witness ==
    /\ pc = "file_built"
    /\ Len(results) = 2
    /\ get_version(results[1]) = BadVersion
    /\ get_version(results[2]) # BadVersion
    /\ files[1].entries = <<CMIP6Entry(results[2])>>

\* C23: once construction has ended, a record with a readable version and
\* a table_id or a grid_label outside RESULTS_FACETS_ORDERING means that
\* construction has raised and has produced no file.
C23_UnlistedFacetRaises ==
    (pc # "file_new"
       /\ \E i \in 1..Len(Parseable(results)) :
             \/ Parseable(results)[i].table_id \notin Range(TableIdOrdering)
             \/ Parseable(results)[i].grid_label \notin Range(GridLabelOrdering))
        => (pc = "file_ValueError" /\ files = <<>>)

\* C23 witness: construction has raised on a single record with a readable
\* version, a listed table_id and an unlisted grid_label
C23_Witness ==
    /\ pc = "file_ValueError"
    /\ Len(results) = 1
    /\ get_version(results[1]) # BadVersion
    /\ results[1].table_id \in Range(TableIdOrdering)
    /\ results[1].grid_label = UnlistedGrid

(***************************************************************************)
(* Properties of the filters and of search() (under SpecSearch).           *)
(***************************************************************************)
\* CMIP6Search._filter_years has run in this call of search()
FilterYearsDone ==
    /\ args.years.given
    /\ \/ spc \in {"filters", "nodes", "balanced", "returned"}
       \/ spc = "raised" /\ raised.step = "running_nodes"

\* CMIP6Search._filter_running_nodes has been called in this call
NodeFilterCalled ==
    /\ args.filter_running_nodes
    /\ \/ spc \in {"nodes", "balanced", "returned"}
       \/ spc = "raised" /\ raised.step = "running_nodes"

\* the files of dataset d that the span [span[1], span[2]) keeps, in order
FilesInSpan(d, span) ==
    SelectSeq(d.files, LAMBDA id : /\ StartYear(heap[id].dates) < span[2]
                                   /\ EndYear(heap[id].dates) >= span[1])

\* C13: a file is kept by the temporal filter exactly when its start year
\* is before the end of the span and its end year is not before the start
\* of the span: a file of 1850-1900 overlaps the span 1900-1950, a file of
\* 1900-1950 does not overlap the span 1850-1900; and the dataset the
\* filter returns holds the files of the original that satisfy this, all
\* of them, in the original order.
C13_TemporalOverlap ==
    /\ overlapping_spans(1850, 1900, 1900, 1950)
    /\ ~overlapping_spans(1900, 1950, 1850, 1900)
    /\ FilterYearsDone =>
          /\ Len(filter_results) = Len(filter_input)
          /\ \A j \in 1..Len(filter_input) :
                LET kept == FilesInSpan(filter_input[j], args.years.historical)
                IN IF kept = <<>> THEN filter_results[j] = None
                   ELSE /\ filter_results[j] # None
                        /\ Len(filter_results[j].files) = Len(kept)
                        /\ \A i \in 1..Len(kept) :
                              heap[filter_results[j].files[i]].name = heap[kept[i]].name

\* C13 witness: the span 1899-1900 was applied to a dataset of the files
\* 1850-1899 and 1900-1949: the first was kept, its end year being the
\* start of the span, the second was not, its start year being the end
C13_Witness ==
    /\ FilterYearsDone
    /\ args.years.historical = <<1899, 1900>>
    /\ \E j \in 1..Len(filter_input) :
          /\ Len(filter_input[j].files) = 2
          /\ filter_results[j] # None
          /\ Len(filter_results[j].files) = 1
          /\ heap[filter_results[j].files[1]].dates = DatesStrOrder[1]

\* C14: node filtering gives datasets in which every entry is on a mirror
\* the status dictionary reports running: entries on mirrors that are
\* down or missing from the dictionary are gone, and so are the files left
\* without entry.
C14_NodeFilterKeepsReachable ==
    NodeFilterCalled =>
        /\ raised = NoException
        /\ \A j \in 1..Len(cmip6_search.datasets) :
              \A i \in 1..Len(cmip6_search.datasets[j].files) :
                 LET file == heap[cmip6_search.datasets[j].files[i]]
                 IN /\ Len(file.entries) > 0
                    /\ \A e \in 1..Len(file.entries) :
                          args.esgf_nodes_status[file.entries[e].data_node] = "running"

\* C15: the filters of a dataset return None exactly when no file is left
\* and a dataset otherwise, and raise nothing; the filters of CMIP6Search
\* drop the None, so that the datasets a search object holds are datasets
\* with at least one file.
C15_AbsentWhenEmpty ==
    /\ FilterYearsDone =>
          \A j \in 1..Len(filter_input) :
              /\ filter_results[j] = None
                    <=> FilesInSpan(filter_input[j], args.years.historical) = <<>>
              /\ filter_results[j] # None => Len(filter_results[j].files) > 0
    /\ NodeFilterCalled => raised = NoException
    /\ \A j \in 1..Len(cmip6_search.datasets) :
          /\ cmip6_search.datasets[j] # None
          /\ Len(cmip6_search.datasets[j].files) > 0

\* the file objects of the datasets ds are the same before and after a step
FilesUntouched(ds) ==
    \A j \in 1..Len(ds) : \A i \in 1..Len(ds[j].files) :
        heap'[ds[j].files[i]] = heap[ds[j].files[i]]

\* C16: the filters leave the dataset they are called on as it was: the
\* steps that filter change no file object of the datasets they are given,
\* and whatever happens later to the files of the datasets the temporal
\* filter returned, the datasets it was given and their file objects stay
\* the same.
C16_OriginalUnchanged ==
    [][/\ spc \in {"variables", "filters"} => FilesUntouched(cmip6_search.datasets)
       /\ (spc = "variables" /\ args.years.given)
             => filter_input' = cmip6_search.datasets
       /\ FilterYearsDone => (filter_input' = filter_input /\ FilesUntouched(filter_input))]_vars

\* C16 witness: the caller dropped an entry of a file of a dataset the
\* temporal filter returned, and the file it was copied from has them all
C16_Witness ==
    /\ FilterYearsDone
    /\ spc = "returned"
    /\ \E j \in 1..Len(filter_input) :
          /\ filter_results[j] # None
          /\ \E n \in Range(filter_results[j].files), o \in Range(filter_input[j].files) :
                /\ heap[n].name = heap[o].name
                /\ Len(heap[n].entries) < Len(heap[o].entries)

\* C18: search() takes save_path=None: it raises no AssertionError, and
\* when it returns nothing was saved; with a path the object is saved
\* there when the save works, and search() returns also when it does not.
C18_SavePathOptional ==
    /\ raised.kind # "AssertionError"
    /\ (spc = "returned" /\ args.save_path = "None") => saved = "nothing"
    /\ (spc = "returned" /\ saved # "nothing") => args.save_path # "None"
    /\ (spc = "returned") => raised = NoException

(***************************************************************************)
(* Properties of the methods of CMIP6Search (under SpecMethods).           *)
(***************************************************************************)
\* C27: nodes_are_filtered is up only over datasets whose entries are all
\* on mirrors that run; and search(facets) on an object whose flag is up,
\* when it loads datasets, does not leave the flag up.
C27_FlagMeansFiltered ==
    /\ cmip6_search.nodes_are_filtered =>
          \A j \in 1..Len(cmip6_search.datasets) :
              \A i \in 1..Len(cmip6_search.datasets[j].files) :
                  \A e \in Range(heap[cmip6_search.datasets[j].files[i]].entries) :
                      args.esgf_nodes_status[e.data_node] = "running"
    /\ (derived.op = "search" /\ derived.self.nodes_are_filtered
           /\ derived.new.datasets # <<>>)
          => ~derived.new.nodes_are_filtered

\* the methods that end by sub_copy and call no node filter
SubCopyMethods ==
    {"sub_copy", "_filter_facets", "_filter_years", "strict_variable_set", "splitby"}

\* C28: a method that builds its result through sub_copy, called on an
\* object that has local files recorded, returns a search, and that
\* search records the local files of the datasets it retains, no other.
C28_SubCopyKeepsLocalFiles ==
    (/\ derived.op \in SubCopyMethods
     /\ derived.self.datasets # <<>>
     /\ derived.self.datasets_to_local_files # <<>>)
      => /\ derived.new # None
         /\ derived.new.datasets_to_local_files =
               SelectSeq(derived.self.datasets_to_local_files,
                         LAMBDA item :
                             \E k \in 1..Len(derived.new.datasets) :
                                 derived.new.datasets[k].name = item.name)

\* the names of the first n datasets of the object, in list order
NamesUpTo(n) == [k \in 1..n |-> cmip6_search.datasets[k].name]

\* C29: CMIP6Search.download takes the datasets in list order; while it
\* runs, and after a dataset download has raised, datasets_to_local_files
\* is what it was before the call, and the dataset that raised is the
\* last one attempted; a call that ends without an exception has attempted
\* every dataset and leaves one entry per dataset name, in list order.
C29_DownloadAllOrNothing ==
    /\ spc = "download" =>
          /\ cmip6_search.datasets_to_local_files = comprehension.before
          /\ comprehension.attempted = NamesUpTo(comprehension.j - 1)
          /\ raised = NoException
    /\ raised.step = "download" =>
          /\ raised.kind \in {"DownloadError", "ValueError"}
          /\ cmip6_search.datasets_to_local_files = comprehension.before
          /\ comprehension.attempted = NamesUpTo(comprehension.j)
          /\ comprehension.j <= Len(cmip6_search.datasets)
    /\ (derived.op = "download" /\ spc = "object" /\ raised = NoException) =>
          /\ comprehension.attempted = NamesUpTo(Len(cmip6_search.datasets))
          /\ [k \in 1..Len(cmip6_search.datasets_to_local_files) |->
                 cmip6_search.datasets_to_local_files[k].name]
                = NamesUpTo(Len(cmip6_search.datasets))

\* C29 witness: the download of the second dataset raised after the first
\* had returned its paths, in a call made on an object with local files
\* recorded by an earlier call
C29_Witness ==
    /\ raised.step = "download"
    /\ Len(comprehension.attempted) = 2
    /\ Len(comprehension.dict) = 1
    /\ comprehension.before # <<>>
    /\ cmip6_search.datasets_to_local_files = comprehension.before

====
